---------------------------- MODULE Spec2Model ----------------------------
(***************************************************************************)
(* S3 CSV Viewer: the retrieval pipeline of src/src/extension.ts (direct   *)
(* locator flow, variant "direct") and of the bucket/key picker version    *)
(* of the extension in src/README.md (discovery flow, variant              *)
(* "discovery").                                                           *)
(*                                                                         *)
(* Strings are sequences of one-character strings, so that startsWith,     *)
(* trim, basename and template concatenation are computed, not assumed.    *)
(* One JavaScript turn (a callback with the ticks and microtasks it        *)
(* queues) is one action; work done by the libuv thread pool (open, write, *)
(* close, unlink) and by the child process is a separate action each.      *)
(***************************************************************************)
EXTENDS Integers, Sequences, FiniteSets, TLC

\* ------------------------------------------------------------- bounds
\* Chunks a subprocess writes to stdout in one transfer.
MaxChunks == 2
\* Largest value of the millisecond clock read by Date.now().
MaxClock == 2

\* Invocation slots: two command invocations may overlap in time.
Inv == {1, 2}

\* ------------------------------------------------------------ strings
Undefined == <<"undefined">>
Empty == <<>>
S3Prefix == <<"s", "3", ":", "/", "/">>

\* A JavaScript value used as a condition: undefined and "" are falsy.
Truthy(s) == s # Undefined /\ s # Empty

\* String.prototype.startsWith
StartsWith(s, p) == Len(s) >= Len(p) /\ SubSeq(s, 1, Len(p)) = p

RECURSIVE TrimStart(_)
TrimStart(s) == IF s # <<>> /\ Head(s) = " " THEN TrimStart(Tail(s)) ELSE s

RECURSIVE TrimEnd(_)
TrimEnd(s) ==
    IF s # <<>> /\ s[Len(s)] = " " THEN TrimEnd(SubSeq(s, 1, Len(s) - 1)) ELSE s

\* String.prototype.trim
Trim(s) == TrimEnd(TrimStart(s))

RECURSIVE StripSlashes(_)
StripSlashes(s) ==
    IF s # <<>> /\ s[Len(s)] = "/" THEN StripSlashes(SubSeq(s, 1, Len(s) - 1)) ELSE s

RECURSIVE AfterLastSlash(_)
AfterLastSlash(s) ==
    IF \E k \in 1..Len(s) : s[k] = "/"
    THEN AfterLastSlash(SubSeq(s, (CHOOSE k \in 1..Len(s) : s[k] = "/") + 1, Len(s)))
    ELSE s

\* path.basename (POSIX): trailing separators are dropped, then the last segment.
Basename(s) == AfterLastSlash(StripSlashes(s))

\* a || b on strings
OrElse(a, b) == IF Truthy(a) THEN a ELSE b

\* --------------------------------------------------------- input sets
GoodUri == S3Prefix \o <<"b", "/", "x">>
OtherUri == S3Prefix \o <<"a", "/", "d", "/", "x">>
BadUri == <<"b", "/", "x">>

\* Values of the s3CsvViewer.s3Uri setting as stored (before trim).
CfgUris == {Undefined, <<" ">>, BadUri, <<" ">> \o GoodUri \o <<" ">>}

\* Values a host may pass as the optional uriFromInput parameter.
ArgUris == {Empty, GoodUri}

\* Text the user may have typed into the input box when accepting it.
TypedUris == {Empty, BadUri, GoodUri, OtherUri}

\* validateInput of the input box: undefined (accepted) or a message.
ValidateInput(val) == IF StartsWith(val, S3Prefix) THEN Undefined ELSE <<"Must start with s3://">>

\* What showInputBox resolves to: undefined on cancel, else an accepted text.
PromptResults == {Undefined} \cup {v \in TypedUris : ValidateInput(v) = Undefined}

\* Exit status of the 'close' event: an exit code, or null when killed by a signal.
CloseCodes == {"0", "2", "null"}

\* Responses of `aws s3api list-buckets`: failure, undecodable, or bucket names.
BucketReplies == {<<"error">>, <<"badjson">>, <<"names", <<>>>>,
                  <<"names", << <<"a">>, <<"b">> >> >>}

\* Responses of `aws s3api list-objects-v2`: failure, no Contents field, or keys.
KeyReplies == {<<"error">>, <<"nocontents">>, <<"keys", << <<"x">>, <<"d", "/", "x">> >> >>}

\* -------------------------------------------------------------- state
VARIABLES
    variant,      \* which version of the extension is installed
    cfgUri,       \* setting s3CsvViewer.s3Uri
    cfgAuto,      \* setting s3CsvViewer.autoOpenOnStartup
    slots,        \* invocations the host lets run in this execution
    activated,    \* activate() has run
    now,          \* Date.now()
    dir,          \* temp directory: set of <<path, inode>>
    data,         \* inode -> file content (sequence of chunks)
    pc,           \* per invocation: where the flow stands
    startup,      \* invocation was started by activate()
    uriFromInput, \* parameter of openCsvFromS3
    s3Uri,        \* resolved locator
    tmpPath,      \* destination path of the transfer
    child,        \* subprocess: none / spawnErr / running / ended / closed
    out,          \* write stream: none / opening / open / closed / errored
    fd,           \* inode the write stream has open (0: none)
    promise,      \* awsS3CpToFile's promise: state and, once rejected, its error
    emitted,      \* chunks piped from stdout into the write stream
    written,      \* chunks the write stream has flushed to its fd
    ending,       \* end() was called on the write stream
    cbReg,        \* out.close(cb): cb waits for the stream's 'close'
    killed,       \* child.kill("SIGKILL") was sent
    closeCode,    \* code passed to the child's 'close' listener
    stderrSent,   \* bytes the subprocess has written to stderr
    stderrBuf,    \* diagnostic text accumulated from stderr
    unlinks,      \* outcomes of the cleanup unlink ("ok" / "ENOENT")
    spawns,       \* spawn() calls of the transfer
    errors,       \* showErrorMessage calls
    notices,      \* setStatusBarMessage calls
    buckets,      \* discovery: bucket names offered
    bucket,       \* discovery: bucket picked
    keys,         \* discovery: key names offered
    listCalls,    \* discovery: runAwsCli calls made, in order
    picked        \* what each interactive step (input box, picker) resolved to

cfgVars == <<variant, cfgUri, cfgAuto, slots>>
fsVars == <<dir, data>>
flowVars == <<startup, uriFromInput, s3Uri, tmpPath>>
xferVars == <<child, out, fd, emitted, written, ending, cbReg, killed, closeCode,
              stderrBuf, stderrSent, spawns>>
uiVars == <<errors, notices>>
discVars == <<buckets, bucket, keys, listCalls>>
vars == <<cfgVars, activated, now, fsVars, pc, flowVars, promise, xferVars, unlinks,
          uiVars, discVars, picked>>

NoPromise == [state |-> "none", kind |-> "", code |-> "", text |-> <<>>]

\* The state before activate() has run: nothing invoked, the temp directory empty.
Fresh ==
    /\ activated = FALSE
    /\ now = 1
    /\ dir = {}
    /\ data = [k \in Inv |-> <<>>]
    /\ pc = [i \in Inv |-> "Idle"]
    /\ startup = [i \in Inv |-> FALSE]
    /\ uriFromInput = [i \in Inv |-> Undefined]
    /\ s3Uri = [i \in Inv |-> Undefined]
    /\ tmpPath = [i \in Inv |-> <<>>]
    /\ child = [i \in Inv |-> "none"]
    /\ out = [i \in Inv |-> "none"]
    /\ fd = [i \in Inv |-> 0]
    /\ promise = [i \in Inv |-> NoPromise]
    /\ emitted = [i \in Inv |-> 0]
    /\ written = [i \in Inv |-> 0]
    /\ ending = [i \in Inv |-> FALSE]
    /\ cbReg = [i \in Inv |-> FALSE]
    /\ killed = [i \in Inv |-> FALSE]
    /\ closeCode = [i \in Inv |-> "none"]
    /\ stderrSent = [i \in Inv |-> <<>>]
    /\ stderrBuf = [i \in Inv |-> <<>>]
    /\ unlinks = [i \in Inv |-> <<>>]
    /\ spawns = [i \in Inv |-> 0]
    /\ errors = [i \in Inv |-> <<>>]
    /\ notices = [i \in Inv |-> <<>>]
    /\ buckets = [i \in Inv |-> <<>>]
    /\ bucket = [i \in Inv |-> Undefined]
    /\ keys = [i \in Inv |-> <<>>]
    /\ listCalls = [i \in Inv |-> <<>>]
    /\ picked = [i \in Inv |-> <<>>]

\* One invocation per execution, with every configuration. The picker version
\* reads neither s3Uri nor autoOpenOnStartup.
Init ==
    /\ variant \in {"direct", "discovery"}
    /\ cfgUri \in CfgUris
    /\ cfgAuto \in BOOLEAN
    /\ variant = "discovery" => cfgUri = Undefined /\ cfgAuto = FALSE
    /\ slots = {1}
    /\ Fresh

\* Two invocations of the command that may overlap, with a locator configured.
InitConc ==
    /\ variant = "direct"
    /\ cfgUri = <<" ">> \o GoodUri \o <<" ">>
    /\ cfgAuto = FALSE
    /\ slots = Inv
    /\ Fresh

\* The millisecond clock advances on its own.
Tick ==
    /\ now < MaxClock
    /\ now' = now + 1
    /\ UNCHANGED <<cfgVars, activated, fsVars, pc, flowVars, promise, xferVars, unlinks,
                   uiVars, discVars, picked>>

\* ---------------------------------------------------------- file system
Exists(p) == \E e \in dir : e[1] = p
InodeOf(p) == (CHOOSE e \in dir : e[1] = p)[2]
Hole == <<0, 0>>
Chunk(i, k) == <<i, k>>

\* pwrite of one chunk at chunk offset pos (1-based); a gap reads as a hole.
WriteAt(d, pos, c) ==
    IF pos <= Len(d)
    THEN [d EXCEPT ![pos] = c]
    ELSE d \o [k \in 1..(pos - 1 - Len(d)) |-> Hole] \o <<c>>

\* What the subprocess of invocation i has put on stdout so far.
Emitted(i) == [k \in 1..emitted[i] |-> Chunk(i, k)]

\* ------------------------------------------------------------ promise
Pending == [NoPromise EXCEPT !.state = "pending"]
Resolved == [NoPromise EXCEPT !.state = "resolved"]
Rejected(kind, code, text) ==
    [state |-> "rejected", kind |-> kind, code |-> code, text |-> text]

\* showErrorMessage(`Failed to load CSV. ${err?.message ?? String(err)}`)
ShowError(i, err) == errors' = [errors EXCEPT ![i] = Append(@, err)]

\* The continuation of `await awsS3CpToFile(...)` once the promise is rejected.
\* extension.ts: the catch of fetchCsvToTemp issues the cleanup unlink.
\* README.md: openS3FileInEditor has no catch; pickAndOpenS3File shows the error.
OnTransferRejected(i, r) ==
    IF variant = "direct"
    THEN /\ pc' = [pc EXCEPT ![i] = "Unlinking"]
         /\ UNCHANGED errors
    ELSE /\ pc' = [pc EXCEPT ![i] = "Failed"]
         /\ ShowError(i, r)

\* Mutant of Settle: every resolve() / reject() call continues the awaiting flow,
\* not only the first.
SettleEveryCall(i, r) ==
    /\ promise' = [promise EXCEPT ![i] = r]
    /\ IF r.state = "resolved"
       THEN /\ pc' = [pc EXCEPT ![i] = "OpenDoc"]
            /\ UNCHANGED errors
       ELSE OnTransferRejected(i, r)

\* resolve() / reject(err): only the first call settles the promise; the awaiting
\* flow continues in the same turn (microtask).
Settle(i, r) ==
    IF promise[i].state # "pending"
    THEN UNCHANGED <<promise, pc, errors>>
    ELSE /\ promise' = [promise EXCEPT ![i] = r]
         /\ IF r.state = "resolved"
            THEN /\ pc' = [pc EXCEPT ![i] = "OpenDoc"]
                 /\ UNCHANGED errors
            ELSE OnTransferRejected(i, r)

\* The callback given to out.close(): resolve on exit code 0, else reject.
CloseCallback(i, code) ==
    Settle(i, IF code = "0" THEN Resolved
              ELSE Rejected("exit", code, Trim(stderrBuf[i])))

\* ------------------------------------------------------------ transfer
\* awsS3CpToFile up to the end of the promise executor: spawn, createWriteStream,
\* pipe and the listeners. A failed spawn (ENOENT, EACCES) is reported later by
\* the child's 'error' event.
AwsS3CpToFile(i) ==
    /\ pc' = [pc EXCEPT ![i] = "Transferring"]
    /\ spawns' = [spawns EXCEPT ![i] = @ + 1]
    /\ \E ok \in BOOLEAN :
          child' = [child EXCEPT ![i] = IF ok THEN "running" ELSE "spawnErr"]
    /\ out' = [out EXCEPT ![i] = "opening"]
    /\ promise' = [promise EXCEPT ![i] = Pending]
    /\ UNCHANGED errors

DefaultName == <<"s", "3", ".", "c", "s", "v">>

\* Mutant of FetchCsvToTemp: only `!s3Uri` is checked, the prefix test is missing.
FetchCsvToTempNoPrefixCheck(i, uri) ==
    /\ s3Uri' = [s3Uri EXCEPT ![i] = uri]
    /\ IF ~Truthy(uri)
       THEN /\ pc' = [pc EXCEPT ![i] = "Failed"]
            /\ ShowError(i, Rejected("validation", "", <<>>))
            /\ UNCHANGED <<tmpPath, promise, child, out, spawns>>
       ELSE /\ tmpPath' = [tmpPath EXCEPT ![i] =
                              <<"s3-csv-viewer", now, OrElse(Basename(uri), DefaultName)>>]
            /\ AwsS3CpToFile(i)

\* fetchCsvToTemp up to its first await.
FetchCsvToTemp(i, uri) ==
    /\ s3Uri' = [s3Uri EXCEPT ![i] = uri]
    /\ IF ~Truthy(uri) \/ ~StartsWith(uri, S3Prefix)
       THEN /\ pc' = [pc EXCEPT ![i] = "Failed"]
            /\ ShowError(i, Rejected("validation", "", <<>>))
            /\ UNCHANGED <<tmpPath, promise, child, out, spawns>>
       ELSE /\ tmpPath' = [tmpPath EXCEPT ![i] =
                              <<"s3-csv-viewer", now, OrElse(Basename(uri), DefaultName)>>]
            /\ AwsS3CpToFile(i)

\* Mutant of SinkError: the listener kills the child but does not reject.
SinkErrorNoReject(i) ==
    /\ out' = [out EXCEPT ![i] = "errored"]
    /\ fd' = [fd EXCEPT ![i] = 0]
    /\ killed' = [killed EXCEPT ![i] = @ \/ child[i] \in {"running", "ended"}]
    /\ UNCHANGED <<promise, pc, errors>>

\* out.on("error"): kill the child and reject; the stream is destroyed and its
\* 'close' follows in the same turn (a waiting close callback finds the promise
\* already rejected).
SinkError(i) ==
    /\ out' = [out EXCEPT ![i] = "errored"]
    /\ fd' = [fd EXCEPT ![i] = 0]
    /\ killed' = [killed EXCEPT ![i] = @ \/ child[i] \in {"running", "ended"}]
    /\ Settle(i, Rejected("sink", "", <<>>))

\* child 'error' (spawn failed): reject(err); then 'close' with the negative
\* errno as code: out.close(cb). The two listeners are one step here: the close
\* listener only registers a callback that will find the promise rejected.
SpawnError(i) ==
    /\ child[i] = "spawnErr"
    /\ child' = [child EXCEPT ![i] = "closed"]
    /\ closeCode' = [closeCode EXCEPT ![i] = "-2"]
    /\ Settle(i, Rejected("spawn", "", <<>>))
    /\ cbReg' = [cbReg EXCEPT ![i] = out[i] \in {"opening", "open"}]
    /\ ending' = [ending EXCEPT ![i] = @ \/ out[i] \in {"opening", "open"}]
    /\ UNCHANGED <<cfgVars, activated, now, fsVars, flowVars, out, fd, emitted, written,
                   killed, stderrBuf, stderrSent, spawns, unlinks, notices, discVars, picked>>

\* child.stdout 'data' through pipe(): the chunk is handed to the write stream.
StdoutData(i) ==
    /\ child[i] = "running"
    /\ out[i] \in {"opening", "open"}
    /\ emitted[i] < MaxChunks
    /\ emitted' = [emitted EXCEPT ![i] = @ + 1]
    /\ UNCHANGED <<cfgVars, activated, now, fsVars, pc, flowVars, promise, child, out, fd,
                   written, ending, cbReg, killed, closeCode, stderrBuf, stderrSent, spawns, unlinks,
                   uiVars, discVars, picked>>

\* Bytes of diagnostic text a subprocess writes to stderr in one transfer.
MaxStderr == 2

\* The bytes one stderr 'data' event may carry: ASCII text ending in a newline,
\* a two-byte UTF-8 character (C3 A9), or either half of it when the read
\* boundary falls inside the character.
StderrChunks == {<<"d", "\n">>, <<"C3", "A9">>, <<"C3">>, <<"A9">>}

\* The byte stream ends inside a character.
PendingLead(b) == b # <<>> /\ b[Len(b)] = "C3"

\* Buffer.prototype.toString() (UTF-8): a complete sequence decodes to its
\* character, a lead or continuation byte on its own to U+FFFD.
RECURSIVE Utf8ToString(_)
Utf8ToString(b) ==
    IF b = <<>> THEN <<>>
    ELSE IF Len(b) >= 2 /\ b[1] = "C3" /\ b[2] = "A9"
         THEN <<"U+00E9">> \o Utf8ToString(SubSeq(b, 3, Len(b)))
    ELSE IF b[1] \in {"C3", "A9"}
         THEN <<"U+FFFD">> \o Utf8ToString(Tail(b))
    ELSE <<b[1]>> \o Utf8ToString(Tail(b))

\* child.stderr.on("data", d => stderrBuf += d.toString()); the subprocess writes
\* well-formed UTF-8, delivered in chunks.
StderrData(i) ==
    /\ child[i] = "running"
    /\ \E c \in StderrChunks :
          /\ Len(stderrSent[i]) + Len(c) <= MaxStderr
          /\ c = <<"C3">> => Len(stderrSent[i]) + 2 <= MaxStderr
          /\ c = <<"A9">> <=> PendingLead(stderrSent[i])
          /\ stderrSent' = [stderrSent EXCEPT ![i] = @ \o c]
          /\ stderrBuf' = [stderrBuf EXCEPT ![i] = @ \o Utf8ToString(c)]
    /\ UNCHANGED <<cfgVars, activated, now, fsVars, pc, flowVars, promise, child, out, fd,
                   emitted, written, ending, cbReg, killed, closeCode, spawns, unlinks,
                   uiVars, discVars, picked>>

\* The subprocess exits, having written whole characters to stderr, and its
\* stdout reaches EOF: pipe() calls out.end().
StdoutEnd(i) ==
    /\ child[i] = "running"
    /\ ~PendingLead(stderrSent[i])
    /\ child' = [child EXCEPT ![i] = "ended"]
    /\ ending' = [ending EXCEPT ![i] = @ \/ out[i] \in {"opening", "open"}]
    /\ UNCHANGED <<cfgVars, activated, now, fsVars, pc, flowVars, promise, out, fd,
                   emitted, written, cbReg, killed, closeCode, stderrBuf, stderrSent, spawns, unlinks,
                   uiVars, discVars, picked>>

\* Mutant of ChildClose: the listener ends the stream but passes no callback to
\* close(), so the exit code is never looked at.
ChildCloseNoCallback(i, code) ==
    /\ child[i] = "ended"
    /\ child' = [child EXCEPT ![i] = "closed"]
    /\ closeCode' = [closeCode EXCEPT ![i] = code]
    /\ ending' = [ending EXCEPT ![i] = @ \/ out[i] \in {"opening", "open"}]
    /\ UNCHANGED <<cfgVars, activated, now, fsVars, pc, flowVars, promise, out, fd, emitted,
                   written, cbReg, killed, stderrBuf, stderrSent, spawns, unlinks, uiVars,
                   discVars, picked>>

\* child.on("close", code => out.close(cb)). WriteStream.close(cb) calls cb on the
\* next tick when the stream is already closed, and otherwise waits for 'close'
\* and calls end().
ChildClose(i, code) ==
    /\ child[i] = "ended"
    /\ child' = [child EXCEPT ![i] = "closed"]
    /\ closeCode' = [closeCode EXCEPT ![i] = code]
    /\ IF out[i] \in {"closed", "errored"}
       THEN /\ CloseCallback(i, code)
            /\ UNCHANGED <<cbReg, ending>>
       ELSE /\ cbReg' = [cbReg EXCEPT ![i] = TRUE]
            /\ ending' = [ending EXCEPT ![i] = TRUE]
            /\ UNCHANGED <<promise, pc, errors>>
    /\ UNCHANGED <<cfgVars, activated, now, fsVars, flowVars, out, fd, emitted, written,
                   killed, stderrBuf, stderrSent, spawns, unlinks, notices, discVars, picked>>

\* fs.open(path, "w") of the write stream, run by the thread pool: creates the
\* file or truncates the one already at the path; on failure the stream errors.
\* The open is issued after the spawn-error tick has run.
OutOpen(i) ==
    /\ out[i] = "opening"
    /\ child[i] # "spawnErr"
    /\ \/ /\ out' = [out EXCEPT ![i] = "open"]
          /\ IF Exists(tmpPath[i])
             THEN /\ fd' = [fd EXCEPT ![i] = InodeOf(tmpPath[i])]
                  /\ data' = [data EXCEPT ![InodeOf(tmpPath[i])] = <<>>]
                  /\ UNCHANGED dir
             ELSE /\ fd' = [fd EXCEPT ![i] = i]
                  /\ data' = [data EXCEPT ![i] = <<>>]
                  /\ dir' = dir \cup {<<tmpPath[i], i>>}
          /\ UNCHANGED <<promise, pc, errors, killed>>
       \/ /\ SinkError(i)
          /\ UNCHANGED fsVars
    /\ UNCHANGED <<cfgVars, activated, now, flowVars, child, emitted, written, ending,
                   cbReg, closeCode, stderrBuf, stderrSent, spawns, unlinks, notices, discVars, picked>>

\* One buffered chunk is written at the descriptor's offset; on failure the
\* stream errors and drops what is still buffered.
OutWrite(i) ==
    /\ out[i] = "open"
    /\ written[i] < emitted[i]
    /\ \/ /\ data' = [data EXCEPT ![fd[i]] =
                         WriteAt(@, written[i] + 1, Chunk(i, written[i] + 1))]
          /\ written' = [written EXCEPT ![i] = @ + 1]
          /\ UNCHANGED <<out, fd, promise, pc, errors, killed>>
       \/ /\ SinkError(i)
          /\ UNCHANGED <<data, written>>
    /\ UNCHANGED <<cfgVars, activated, now, dir, flowVars, child, emitted, ending, cbReg,
                   closeCode, stderrBuf, stderrSent, spawns, unlinks, notices, discVars, picked>>

\* After end() and the last write the stream finishes, closes its descriptor and
\* emits 'close', which runs the callback of out.close() if one is waiting.
OutClose(i) ==
    /\ out[i] = "open"
    /\ ending[i]
    /\ written[i] = emitted[i]
    /\ out' = [out EXCEPT ![i] = "closed"]
    /\ fd' = [fd EXCEPT ![i] = 0]
    /\ IF cbReg[i]
       THEN CloseCallback(i, closeCode[i])
       ELSE UNCHANGED <<promise, pc, errors>>
    /\ UNCHANGED <<cfgVars, activated, now, fsVars, flowVars, child, emitted, written,
                   ending, cbReg, killed, closeCode, stderrBuf, stderrSent, spawns, unlinks, notices,
                   discVars, picked>>

\* fs.unlink(tmpPath) of the catch in fetchCsvToTemp, run by the thread pool.
UnlinkExec(i) ==
    /\ pc[i] = "Unlinking"
    /\ unlinks[i] = <<>>
    /\ dir' = {e \in dir : e[1] # tmpPath[i]}
    /\ unlinks' = [unlinks EXCEPT ![i] =
                      <<IF Exists(tmpPath[i]) THEN "ok" ELSE "ENOENT">>]
    /\ UNCHANGED <<cfgVars, activated, now, data, pc, flowVars, promise, xferVars, uiVars,
                   discVars, picked>>

\* Mutant of UnlinkReturn: the catch does not rethrow, so fetchCsvToTemp returns
\* and the flow goes on to open the document.
UnlinkReturnNoRethrow(i) ==
    /\ pc[i] = "Unlinking"
    /\ unlinks[i] # <<>>
    /\ pc' = [pc EXCEPT ![i] = "OpenDoc"]
    /\ UNCHANGED <<cfgVars, activated, now, fsVars, flowVars, promise, xferVars, unlinks,
                   uiVars, discVars, picked>>

\* Mutant of UnlinkReturn: a failure of the cleanup unlink is not swallowed and
\* is what leaves fetchCsvToTemp.
UnlinkReturnMasking(i) ==
    /\ pc[i] = "Unlinking"
    /\ unlinks[i] # <<>>
    /\ pc' = [pc EXCEPT ![i] = "Failed"]
    /\ ShowError(i, IF unlinks[i] = <<"ok">> THEN promise[i]
                    ELSE Rejected("unlink", unlinks[i][1], <<>>))
    /\ UNCHANGED <<cfgVars, activated, now, fsVars, flowVars, promise, xferVars, unlinks,
                   notices, discVars, picked>>

\* `try { await fs.unlink } catch {}` is over: `throw e` leaves fetchCsvToTemp and
\* the catch of openCsvFromS3 shows the error.
UnlinkReturn(i) ==
    /\ pc[i] = "Unlinking"
    /\ unlinks[i] # <<>>
    /\ pc' = [pc EXCEPT ![i] = "Failed"]
    /\ ShowError(i, promise[i])
    /\ UNCHANGED <<cfgVars, activated, now, fsVars, flowVars, promise, xferVars, unlinks,
                   notices, discVars, picked>>

\* ------------------------------------------------------------- viewer
\* setStatusBarMessage(`S3 CSV loaded: ${s3Uri}`, 5000)
Notify(i) == notices' = [notices EXCEPT ![i] = Append(@, s3Uri[i])]

\* await vscode.workspace.openTextDocument(vscode.Uri.file(tmpPath))
OpenDoc(i) ==
    /\ pc[i] = "OpenDoc"
    /\ \/ /\ pc' = [pc EXCEPT ![i] = "ShowDoc"]
          /\ UNCHANGED errors
       \/ /\ pc' = [pc EXCEPT ![i] = "Failed"]
          /\ ShowError(i, Rejected("viewer", "", <<>>))
    /\ UNCHANGED <<cfgVars, activated, now, fsVars, flowVars, promise, xferVars, unlinks,
                   notices, discVars, picked>>

\* await vscode.window.showTextDocument(doc); extension.ts then forces the csv
\* language mode when the document was not detected as csv.
ShowDoc(i) ==
    /\ pc[i] = "ShowDoc"
    /\ \/ /\ pc' = [pc EXCEPT ![i] = "Failed"]
          /\ ShowError(i, Rejected("viewer", "", <<>>))
          /\ UNCHANGED notices
       \/ \E languageId \in {"csv", "plaintext"} :
             IF variant = "direct" /\ languageId # "csv"
             THEN /\ pc' = [pc EXCEPT ![i] = "SetLang"]
                  /\ UNCHANGED uiVars
             ELSE /\ pc' = [pc EXCEPT ![i] = "Done"]
                  /\ Notify(i)
                  /\ UNCHANGED errors
    /\ UNCHANGED <<cfgVars, activated, now, fsVars, flowVars, promise, xferVars, unlinks,
                   discVars, picked>>

\* Mutant of SetLang: the status bar message is set before the language mode
\* call, so it is emitted even when that call fails.
SetLangNotifyFirst(i) ==
    /\ pc[i] = "SetLang"
    /\ Notify(i)
    /\ \/ /\ pc' = [pc EXCEPT ![i] = "Done"]
          /\ UNCHANGED errors
       \/ /\ pc' = [pc EXCEPT ![i] = "Failed"]
          /\ ShowError(i, Rejected("viewer", "", <<>>))
    /\ UNCHANGED <<cfgVars, activated, now, fsVars, flowVars, promise, xferVars, unlinks,
                   discVars, picked>>

\* await vscode.languages.setTextDocumentLanguage(doc, "csv")
SetLang(i) ==
    /\ pc[i] = "SetLang"
    /\ \/ /\ pc' = [pc EXCEPT ![i] = "Done"]
          /\ Notify(i)
          /\ UNCHANGED errors
       \/ /\ pc' = [pc EXCEPT ![i] = "Failed"]
          /\ ShowError(i, Rejected("viewer", "", <<>>))
          /\ UNCHANGED notices
    /\ UNCHANGED <<cfgVars, activated, now, fsVars, flowVars, promise, xferVars, unlinks,
                   discVars, picked>>

\* ------------------------------------------------- direct flow (extension.ts)
\* activate(): registers the command and, when autoOpenOnStartup is set, calls
\* openCsvFromS3(context).catch(() => {}).
Activate ==
    /\ ~activated
    /\ activated' = TRUE
    /\ IF variant = "direct" /\ cfgAuto
       THEN /\ pc' = [pc EXCEPT ![1] = "ResolvingLocator"]
            /\ startup' = [startup EXCEPT ![1] = TRUE]
       ELSE UNCHANGED <<pc, startup>>
    /\ UNCHANGED <<cfgVars, now, fsVars, uriFromInput, s3Uri, tmpPath, promise, xferVars,
                   unlinks, uiVars, discVars, picked>>

\* The registered command handler runs: async () => openCsvFromS3(context) in
\* extension.ts, async () => pickAndOpenS3File(context) in README.md (which first
\* awaits the list-buckets query). Slots are taken in order.
InvokeCommand(i) ==
    /\ activated
    /\ i \in slots
    /\ pc[i] = "Idle"
    /\ \A j \in Inv : j < i => pc[j] # "Idle"
    /\ IF variant = "direct"
       THEN /\ pc' = [pc EXCEPT ![i] = "ResolvingLocator"]
            /\ UNCHANGED listCalls
       ELSE /\ pc' = [pc EXCEPT ![i] = "ListBuckets"]
            /\ listCalls' = [listCalls EXCEPT ![i] = Append(@, <<"list-buckets">>)]
    /\ UNCHANGED <<cfgVars, activated, now, fsVars, flowVars, promise, xferVars, unlinks,
                   uiVars, buckets, bucket, keys, picked>>

\* openCsvFromS3(context, uriFromInput) called with an explicit locator.
InvokeWithUri(i, u) ==
    /\ activated
    /\ variant = "direct"
    /\ i \in slots
    /\ pc[i] = "Idle"
    /\ \A j \in Inv : j < i => pc[j] # "Idle"
    /\ pc' = [pc EXCEPT ![i] = "ResolvingLocator"]
    /\ uriFromInput' = [uriFromInput EXCEPT ![i] = u]
    /\ UNCHANGED <<cfgVars, activated, now, fsVars, startup, s3Uri, tmpPath, promise,
                   xferVars, unlinks, uiVars, discVars, picked>>

\* cfg.get<string>("s3Uri")?.trim() || ""
ConfiguredUri == IF cfgUri = Undefined THEN Empty ELSE OrElse(Trim(cfgUri), Empty)

\* Mutant of ResolveLocator: the configured locator is preferred to the argument.
ResolveLocatorConfigFirst(i) ==
    /\ pc[i] = "ResolvingLocator"
    /\ IF Truthy(OrElse(ConfiguredUri, uriFromInput[i]))
       THEN FetchCsvToTemp(i, OrElse(ConfiguredUri, uriFromInput[i]))
       ELSE /\ pc' = [pc EXCEPT ![i] = "Prompt"]
            /\ UNCHANGED <<s3Uri, tmpPath, promise, child, out, spawns, errors>>
    /\ UNCHANGED <<cfgVars, activated, now, fsVars, startup, uriFromInput, fd, emitted,
                   written, ending, cbReg, killed, closeCode, stderrBuf, stderrSent, unlinks, notices,
                   discVars, picked>>

\* openCsvFromS3 from its first line to its first await: the locator is the
\* argument, else the configured one, else asked for in an input box.
ResolveLocator(i) ==
    /\ pc[i] = "ResolvingLocator"
    /\ IF Truthy(OrElse(uriFromInput[i], ConfiguredUri))
       THEN FetchCsvToTemp(i, OrElse(uriFromInput[i], ConfiguredUri))
       ELSE /\ pc' = [pc EXCEPT ![i] = "Prompt"]
            /\ UNCHANGED <<s3Uri, tmpPath, promise, child, out, spawns, errors>>
    /\ UNCHANGED <<cfgVars, activated, now, fsVars, startup, uriFromInput, fd, emitted,
                   written, ending, cbReg, killed, closeCode, stderrBuf, stderrSent, unlinks, notices,
                   discVars, picked>>

\* Mutant of PromptReturn: the `if (!s3Uri) return;` guard is missing.
PromptReturnNoGuard(i, v) ==
    /\ pc[i] = "Prompt"
    /\ picked' = [picked EXCEPT ![i] = Append(@, v)]
    /\ FetchCsvToTemp(i, v)
    /\ UNCHANGED <<cfgVars, activated, now, fsVars, startup, uriFromInput, fd, emitted,
                   written, ending, cbReg, killed, closeCode, stderrBuf, stderrSent, unlinks, notices,
                   discVars>>

\* showInputBox resolves: `if (!s3Uri) return;`, else the transfer starts.
PromptReturn(i, v) ==
    /\ pc[i] = "Prompt"
    /\ picked' = [picked EXCEPT ![i] = Append(@, v)]
    /\ IF ~Truthy(v)
       THEN /\ pc' = [pc EXCEPT ![i] = "Cancelled"]
            /\ UNCHANGED <<s3Uri, tmpPath, promise, child, out, spawns, errors>>
       ELSE FetchCsvToTemp(i, v)
    /\ UNCHANGED <<cfgVars, activated, now, fsVars, startup, uriFromInput, fd, emitted,
                   written, ending, cbReg, killed, closeCode, stderrBuf, stderrSent, unlinks, notices,
                   discVars>>

\* --------------------------------------------- discovery flow (README.md)
\* runAwsCli(["s3api", "list-buckets", ...]) settles; JSON.parse and
\* dataBuckets.Buckets.map run; then the bucket picker is shown.
ListBucketsReturn(i, reply) ==
    /\ pc[i] = "ListBuckets"
    /\ IF reply[1] = "names"
       THEN /\ buckets' = [buckets EXCEPT ![i] = reply[2]]
            /\ pc' = [pc EXCEPT ![i] = "PickBucket"]
            /\ UNCHANGED errors
       ELSE /\ pc' = [pc EXCEPT ![i] = "Failed"]
            /\ ShowError(i, Rejected(reply[1], "", <<>>))
            /\ UNCHANGED buckets
    /\ UNCHANGED <<cfgVars, activated, now, fsVars, flowVars, promise, xferVars, unlinks,
                   notices, bucket, keys, listCalls, picked>>

\* What showQuickPick(items) resolves to: undefined on cancel, else one item.
Picks(items) == {Undefined} \cup {items[k] : k \in 1..Len(items)}

\* Mutant of PickBucket: the `if (!bucket) return;` guard is missing.
PickBucketNoGuard(i, choice) ==
    /\ pc[i] = "PickBucket"
    /\ picked' = [picked EXCEPT ![i] = Append(@, choice)]
    /\ bucket' = [bucket EXCEPT ![i] = choice]
    /\ listCalls' = [listCalls EXCEPT ![i] = Append(@, <<"list-objects-v2", choice>>)]
    /\ pc' = [pc EXCEPT ![i] = "ListKeys"]
    /\ UNCHANGED <<cfgVars, activated, now, fsVars, flowVars, promise, xferVars, unlinks,
                   uiVars, buckets, keys>>

\* The bucket picker resolves: `if (!bucket) return;`, else list-objects-v2 runs.
PickBucket(i, choice) ==
    /\ pc[i] = "PickBucket"
    /\ picked' = [picked EXCEPT ![i] = Append(@, choice)]
    /\ IF ~Truthy(choice)
       THEN /\ pc' = [pc EXCEPT ![i] = "Cancelled"]
            /\ UNCHANGED <<bucket, listCalls>>
       ELSE /\ bucket' = [bucket EXCEPT ![i] = choice]
            /\ listCalls' = [listCalls EXCEPT ![i] =
                                Append(@, <<"list-objects-v2", choice>>)]
            /\ pc' = [pc EXCEPT ![i] = "ListKeys"]
    /\ UNCHANGED <<cfgVars, activated, now, fsVars, flowVars, promise, xferVars, unlinks,
                   uiVars, buckets, keys>>

\* Mutant of ListKeysReturn: `dataObjs.Contents.map(...)` without `|| []`, so a
\* response with no Contents field throws and the error is shown.
ListKeysReturnNoDefault(i, reply) ==
    /\ pc[i] = "ListKeys"
    /\ IF reply[1] = "keys"
       THEN /\ keys' = [keys EXCEPT ![i] = reply[2]]
            /\ pc' = [pc EXCEPT ![i] = "PickKey"]
            /\ UNCHANGED errors
       ELSE /\ pc' = [pc EXCEPT ![i] = "Failed"]
            /\ ShowError(i, Rejected(reply[1], "", <<>>))
            /\ UNCHANGED keys
    /\ UNCHANGED <<cfgVars, activated, now, fsVars, flowVars, promise, xferVars, unlinks,
                   notices, buckets, bucket, listCalls, picked>>

\* The list-objects-v2 query settles: keys = (dataObjs.Contents || []).map(o => o.Key)
ListKeysReturn(i, reply) ==
    /\ pc[i] = "ListKeys"
    /\ IF reply[1] \in {"keys", "nocontents"}
       THEN /\ keys' = [keys EXCEPT ![i] = IF reply[1] = "keys" THEN reply[2] ELSE <<>>]
            /\ pc' = [pc EXCEPT ![i] = "PickKey"]
            /\ UNCHANGED errors
       ELSE /\ pc' = [pc EXCEPT ![i] = "Failed"]
            /\ ShowError(i, Rejected(reply[1], "", <<>>))
            /\ UNCHANGED keys
    /\ UNCHANGED <<cfgVars, activated, now, fsVars, flowVars, promise, xferVars, unlinks,
                   notices, buckets, bucket, listCalls, picked>>

\* Mutant of LocatorOf: the separator between bucket and key is missing.
LocatorNoSeparator(b, k) == S3Prefix \o b \o k

\* `s3://${bucket}/${key}`
LocatorOf(b, k) == S3Prefix \o b \o <<"/">> \o k

\* The key picker resolves: `if (!key) return;`, else openS3FileInEditor starts
\* the transfer into s3-viewer-<Date.now()>-<basename>.
PickKey(i, choice) ==
    /\ pc[i] = "PickKey"
    /\ picked' = [picked EXCEPT ![i] = Append(@, choice)]
    /\ IF ~Truthy(choice)
       THEN /\ pc' = [pc EXCEPT ![i] = "Cancelled"]
            /\ UNCHANGED <<s3Uri, tmpPath, promise, child, out, spawns, errors>>
       ELSE /\ s3Uri' = [s3Uri EXCEPT ![i] = LocatorOf(bucket[i], choice)]
            /\ tmpPath' = [tmpPath EXCEPT ![i] =
                              <<"s3-viewer", now, Basename(LocatorOf(bucket[i], choice))>>]
            /\ AwsS3CpToFile(i)
    /\ UNCHANGED <<cfgVars, activated, now, fsVars, startup, uriFromInput, fd, emitted,
                   written, ending, cbReg, killed, closeCode, stderrBuf, stderrSent, unlinks, notices,
                   discVars>>

Next ==
    \/ Tick
    \/ Activate
    \/ \E i \in Inv : InvokeCommand(i)
    \/ \E i \in Inv, u \in ArgUris : InvokeWithUri(i, u)
    \/ \E i \in Inv : ResolveLocator(i)
    \/ \E i \in Inv, v \in PromptResults : PromptReturn(i, v)
    \/ \E i \in Inv, r \in BucketReplies : ListBucketsReturn(i, r)
    \/ \E i \in Inv : \E c \in Picks(buckets[i]) : PickBucket(i, c)
    \/ \E i \in Inv, r \in KeyReplies : ListKeysReturn(i, r)
    \/ \E i \in Inv : \E c \in Picks(keys[i]) : PickKey(i, c)
    \/ \E i \in Inv : SpawnError(i)
    \/ \E i \in Inv : StdoutData(i)
    \/ \E i \in Inv : StderrData(i)
    \/ \E i \in Inv : StdoutEnd(i)
    \/ \E i \in Inv, code \in CloseCodes : ChildClose(i, code)
    \/ \E i \in Inv : OutOpen(i)
    \/ \E i \in Inv : OutWrite(i)
    \/ \E i \in Inv : OutClose(i)
    \/ \E i \in Inv : UnlinkExec(i)
    \/ \E i \in Inv : UnlinkReturn(i)
    \/ \E i \in Inv : OpenDoc(i)
    \/ \E i \in Inv : ShowDoc(i)
    \/ \E i \in Inv : SetLang(i)

Spec == Init /\ [][Next]_vars

\* The event loop runs every callback that is due: the tick that reports a failed
\* spawn, and the completions of the write stream's open, write and close.
Fairness ==
    \A i \in Inv :
        /\ WF_vars(SpawnError(i))
        /\ WF_vars(OutOpen(i))
        /\ WF_vars(OutWrite(i))
        /\ WF_vars(OutClose(i))

SpecLive == Init /\ [][Next]_vars /\ Fairness

\* Overlapping invocations up to the return of fetchCsvToTemp.
NextConc ==
    \/ Tick
    \/ Activate
    \/ \E i \in Inv : InvokeCommand(i)
    \/ \E i \in Inv : ResolveLocator(i)
    \/ \E i \in Inv : SpawnError(i)
    \/ \E i \in Inv : StdoutData(i)
    \/ \E i \in Inv : StdoutEnd(i)
    \/ \E i \in Inv, code \in CloseCodes : ChildClose(i, code)
    \/ \E i \in Inv : OutOpen(i)
    \/ \E i \in Inv : OutWrite(i)
    \/ \E i \in Inv : OutClose(i)
    \/ \E i \in Inv : UnlinkExec(i)
    \/ \E i \in Inv : UnlinkReturn(i)

SpecConc == InitConc /\ [][NextConc]_vars

\* ====================================================================
\* Properties
\* ====================================================================

\* fetchCsvToTemp was entered by invocation i (its argument is recorded).
Fetched(i) == s3Uri[i] # Undefined

\* The orchestrator state of the design a position of the flow belongs to.
Phase(p) ==
    CASE p = "Idle" -> "Idle"
      [] p \in {"ResolvingLocator", "Prompt", "ListBuckets", "PickBucket", "ListKeys",
                "PickKey"} -> "ResolvingLocator"
      [] p \in {"Transferring", "Unlinking"} -> "Transferring"
      [] p \in {"OpenDoc", "ShowDoc", "SetLang"} -> "Opening"
      [] p = "Done" -> "Done"
      [] p = "Failed" -> "Failed"
      [] p = "Cancelled" -> "Cancelled"

\* C1: an input that is empty or does not start with "s3://" makes fetchCsvToTemp
\* fail with the validation error; that invocation spawns no subprocess, creates
\* no write stream and computes no temporary path.
C1_InvalidLocatorRejected ==
    \A i \in Inv :
        (Fetched(i) /\ (~Truthy(s3Uri[i]) \/ ~StartsWith(s3Uri[i], S3Prefix)))
        => /\ pc[i] = "Failed"
           /\ errors[i] = <<Rejected("validation", "", <<>>)>>
           /\ spawns[i] = 0
           /\ child[i] = "none"
           /\ out[i] = "none"
           /\ tmpPath[i] = <<>>
           /\ ~\E e \in dir : e[2] = i

\* C1 witness: a locator without the prefix reached fetchCsvToTemp and was rejected.
C1_Witness ==
    \E i \in Inv : s3Uri[i] = BadUri /\ pc[i] = "Failed" /\ spawns[i] = 0

\* C2: when the subprocess closed with a non-zero exit code, the destination path
\* does not exist at the moment fetchCsvToTemp returns its failure.
C2_NoFileAfterNonZeroExit ==
    [][\A i \in Inv :
          (pc[i] = "Unlinking" /\ pc'[i] = "Failed" /\ promise[i].kind = "exit")
          => ~\E e \in dir' : e[1] = tmpPath[i]]_vars

\* C3: when fetchCsvToTemp returns successfully the sink is closed, the file at the
\* returned path holds exactly the chunks the subprocess emitted, in order, and
\* the call has not unlinked it.
C3_FileIsWhatWasEmitted ==
    [][\A i \in Inv :
          (pc[i] = "Transferring" /\ pc'[i] = "OpenDoc")
          => /\ out'[i] = "closed"
             /\ \E e \in dir' : e[1] = tmpPath[i] /\ data'[e[2]] = Emitted(i)
             /\ unlinks'[i] = <<>>]_vars

\* C4: for every failure of the streaming transfer, once fetchCsvToTemp has
\* returned its failure and the write stream has finished its file operations,
\* the destination path does not exist.
C4_NoFileAfterAnyFailure ==
    \A i \in Inv :
        (variant = "direct" /\ pc[i] = "Failed" /\ promise[i].state = "rejected"
           /\ out[i] \in {"closed", "errored"})
        => ~Exists(tmpPath[i])

\* C5: two invocations of fetchCsvToTemp that overlap in time use distinct
\* temporary paths.
C5_DistinctPaths ==
    \A i, j \in Inv :
        (i # j /\ pc[i] \in {"Transferring", "Unlinking"}
               /\ pc[j] \in {"Transferring", "Unlinking"})
        => tmpPath[i] # tmpPath[j]

\* Moves between orchestrator states that the design's state machine names, with
\* cancellation leaving ResolvingLocator.
DesignEdges ==
    {<<"Idle", "ResolvingLocator">>, <<"ResolvingLocator", "Transferring">>,
     <<"Transferring", "Opening">>, <<"Opening", "Done">>,
     <<"ResolvingLocator", "Failed">>, <<"Transferring", "Failed">>,
     <<"ResolvingLocator", "Cancelled">>}

\* C6 as stated: every invocation moves along Idle -> ResolvingLocator ->
\* Transferring -> Opening -> Done, and Failed is entered only from
\* ResolvingLocator or Transferring.
C6_FailedOnlyBeforeOpening ==
    [][\A i \in Inv :
          Phase(pc'[i]) # Phase(pc[i])
          => <<Phase(pc[i]), Phase(pc'[i])>> \in DesignEdges]_vars

\* C6 as amended: every invocation moves along Idle -> ResolvingLocator ->
\* Transferring -> Opening -> Done; Opening is entered only when the transfer has
\* succeeded; Failed is entered only from ResolvingLocator, Transferring or
\* Opening (a failure of the viewer hand-off); Done and Failed are never left, so
\* Failed is never entered after Done.
C6_FailedNeverAfterDone ==
    [][\A i \in Inv :
          /\ Phase(pc'[i]) # Phase(pc[i])
             => <<Phase(pc[i]), Phase(pc'[i])>> \in DesignEdges \cup {<<"Opening", "Failed">>}
          /\ Phase(pc'[i]) = "Opening" => promise'[i].state = "resolved"]_vars

\* C6 witness: an invocation failed in Opening, after its transfer had succeeded.
C6_Witness ==
    \E i \in Inv :
        /\ pc[i] = "Failed"
        /\ promise[i].state = "resolved"
        /\ errors[i] = <<Rejected("viewer", "", <<>>)>>

\* C7: in the discovery flow, when the transfer has failed and the error message
\* has been shown, the temporary file does not exist.
C7_DiscoveryCleansUp ==
    \A i \in Inv :
        (variant = "discovery" /\ pc[i] = "Failed" /\ promise[i].state = "rejected")
        => ~Exists(tmpPath[i])

\* C8: with autoOpenOnStartup set, activate runs the command exactly once and the
\* run started at startup never shows an error message.
C8_StartupSilent ==
    (activated /\ variant = "direct" /\ cfgAuto)
    => /\ Cardinality({i \in Inv : startup[i]}) = 1
       /\ \A i \in Inv : startup[i] => errors[i] = <<>>

\* C9: in the direct flow, when the input box was cancelled (or gave an empty
\* value) the invocation has returned with no subprocess spawned, no temporary
\* file or stream created, and neither an error nor a success message shown.
C9_CancelledPromptIsSilent ==
    \A i \in Inv :
        (variant = "direct" /\ picked[i] # <<>> /\ ~Truthy(picked[i][1]))
        => /\ pc[i] = "Cancelled"
           /\ spawns[i] = 0
           /\ child[i] = "none"
           /\ out[i] = "none"
           /\ tmpPath[i] = <<>>
           /\ ~\E e \in dir : e[2] = i
           /\ errors[i] = <<>>
           /\ notices[i] = <<>>

\* C9 witness: the locator had to be asked for and the input box was cancelled.
C9_Witness ==
    \E i \in Inv :
        variant = "direct" /\ picked[i] = <<Undefined>> /\ pc[i] = "Cancelled"

\* C10: in the discovery flow, cancelling the bucket picker ends the flow with no
\* list-objects query and no transfer; cancelling the key picker ends it with no
\* transfer; neither shows an error message.
C10_CancelledPickersAreSilent ==
    \A i \in Inv :
        /\ (variant = "discovery" /\ Len(picked[i]) >= 1 /\ ~Truthy(picked[i][1]))
           => /\ pc[i] = "Cancelled"
              /\ listCalls[i] = << <<"list-buckets">> >>
              /\ spawns[i] = 0
              /\ out[i] = "none"
              /\ errors[i] = <<>>
        /\ (variant = "discovery" /\ Len(picked[i]) >= 2 /\ ~Truthy(picked[i][2]))
           => /\ pc[i] = "Cancelled"
              /\ listCalls[i] = << <<"list-buckets">>, <<"list-objects-v2", picked[i][1]>> >>
              /\ spawns[i] = 0
              /\ out[i] = "none"
              /\ errors[i] = <<>>

\* C10 witness: a bucket was picked, its keys were listed and the key picker was
\* cancelled.
C10_Witness ==
    \E i \in Inv :
        /\ variant = "discovery"
        /\ Len(picked[i]) = 2
        /\ Truthy(picked[i][1])
        /\ picked[i][2] = Undefined
        /\ pc[i] = "Cancelled"

\* C11: in the direct flow the locator handed to the transfer is the argument when
\* it is non-empty, else the configured default when it is non-empty after
\* trimming, else the value entered in the input box; the input box is shown
\* exactly when both the argument and the configured default are absent.
C11_LocatorPriority ==
    \A i \in Inv :
        (variant = "direct" /\ pc[i] \notin {"Idle", "ResolvingLocator"})
        => LET arg == uriFromInput[i]
               cfg == IF cfgUri = Undefined THEN Empty ELSE Trim(cfgUri)
           IN /\ (pc[i] = "Prompt" \/ picked[i] # <<>>) <=> (~Truthy(arg) /\ cfg = Empty)
              /\ Fetched(i)
                 => s3Uri[i] = IF Truthy(arg) THEN arg
                               ELSE IF cfg # Empty THEN cfg
                               ELSE picked[i][1]

\* C11 witness: an argument and a different configured default were both present
\* and the transfer was started for the argument, with no input box shown.
C11_Witness ==
    \E i \in Inv :
        /\ uriFromInput[i] = GoodUri
        /\ cfgUri = BadUri
        /\ s3Uri[i] = GoodUri
        /\ spawns[i] = 1
        /\ picked[i] = <<>>

\* C12: in the discovery flow the bucket list is queried first, then a bucket is
\* picked, then the keys of the picked bucket only are listed, then a key is
\* picked, then the transfer is started once, for exactly "s3://" + bucket + "/" +
\* key.
C12_DiscoveryOrder ==
    \A i \in Inv :
        variant = "discovery"
        => LET lb == <<"list-buckets">>
               lo == <<"list-objects-v2", picked[i][1]>>
               InSeq(x, q) == \E k \in 1..Len(q) : q[k] = x
           IN /\ pc[i] = "Idle" => listCalls[i] = <<>> /\ picked[i] = <<>>
              /\ pc[i] \in {"ListBuckets", "PickBucket"}
                 => listCalls[i] = <<lb>> /\ picked[i] = <<>> /\ spawns[i] = 0
              /\ pc[i] \in {"ListKeys", "PickKey"}
                 => /\ Len(picked[i]) = 1
                    /\ InSeq(picked[i][1], buckets[i])
                    /\ listCalls[i] = <<lb, lo>>
                    /\ spawns[i] = 0
              /\ spawns[i] > 0
                 => /\ spawns[i] = 1
                    /\ Len(picked[i]) = 2
                    /\ InSeq(picked[i][1], buckets[i])
                    /\ InSeq(picked[i][2], keys[i])
                    /\ listCalls[i] = <<lb, lo>>
                    /\ s3Uri[i] = S3Prefix \o picked[i][1] \o <<"/">> \o picked[i][2]

\* C12 witness: bucket a and key d/x were picked and the transfer of s3://a/d/x
\* is running.
C12_Witness ==
    \E i \in Inv :
        /\ variant = "discovery"
        /\ picked[i] = << <<"a">>, <<"d", "/", "x">> >>
        /\ s3Uri[i] = OtherUri
        /\ pc[i] = "Transferring"

\* C13 as stated: whenever the write stream emits an error, a live subprocess is
\* sent SIGKILL and the transfer call fails with the stream's error.
C13_SinkErrorAlwaysWins ==
    [][\A i \in Inv :
          (out[i] # "errored" /\ out'[i] = "errored")
          => /\ child[i] \in {"running", "ended"} => killed'[i]
             /\ promise'[i] = Rejected("sink", "", <<>>)]_vars

\* C13 as amended: whenever the write stream emits an error, a live subprocess is
\* sent SIGKILL; the transfer call fails with the stream's error when it was still
\* pending, and otherwise has already failed with the spawn error, which stands;
\* once the stream has errored the call is never pending or successful, whatever
\* code the subprocess closes with later.
C13_SinkErrorKillsAndFails ==
    [][\A i \in Inv :
          /\ (out[i] # "errored" /\ out'[i] = "errored")
             => /\ child[i] \in {"running", "ended"} => killed'[i]
                /\ promise[i].state = "pending"
                   => promise'[i] = Rejected("sink", "", <<>>)
                /\ promise[i].state # "pending"
                   => promise'[i] = promise[i] /\ promise[i] = Rejected("spawn", "", <<>>)
          /\ out'[i] = "errored" => promise'[i].state = "rejected"]_vars

\* C13 witness: the stream errored while the subprocess was alive, the subprocess
\* was killed, and it later closed with exit code 0: the call stays failed with
\* the stream's error.
C13_Witness ==
    \E i \in Inv :
        /\ out[i] = "errored"
        /\ killed[i]
        /\ child[i] = "closed"
        /\ closeCode[i] = "0"
        /\ promise[i] = Rejected("sink", "", <<>>)

\* C14: when the subprocess closed with a non-zero exit code and the write stream
\* did not fail, the error shown to the user carries that exit code and the whole
\* text the subprocess wrote to stderr (every chunk, in order; surrounding white
\* space aside).
C14_ErrorCarriesCodeAndStderr ==
    \A i \in Inv :
        (pc[i] = "Failed" /\ promise[i].kind = "exit" /\ closeCode[i] # "null")
        => /\ Len(errors[i]) = 1
           /\ errors[i][1].code = closeCode[i]
           /\ errors[i][1].text = Trim(Utf8ToString(stderrSent[i]))

\* C15: the failure that leaves fetchCsvToTemp, and is shown to the user, is the
\* failure of the transfer, also when the cleanup unlink itself failed.
C15_OriginalErrorSurfaces ==
    \A i \in Inv :
        /\ pc[i] = "Unlinking" => promise[i].state = "rejected" /\ errors[i] = <<>>
        /\ (pc[i] = "Failed" /\ unlinks[i] # <<>>)
           => promise[i].state = "rejected" /\ errors[i] = <<promise[i]>>

\* C15 witness: the write stream could not open the file, the cleanup unlink
\* failed with ENOENT, and the error shown is the stream's.
C15_Witness ==
    \E i \in Inv :
        /\ pc[i] = "Failed"
        /\ unlinks[i] = <<"ENOENT">>
        /\ promise[i] = Rejected("sink", "", <<>>)
        /\ errors[i] = <<promise[i]>>

\* C16: when the list-objects-v2 response has no Contents field, the key list is
\* empty and the step does not fail: the key picker is shown with no items, no
\* error message is shown and no transfer is started, then or afterwards.
C16_NoContentsIsEmptyList ==
    [][\A i \in Inv :
          /\ ListKeysReturn(i, <<"nocontents">>)
             => /\ keys'[i] = <<>>
                /\ pc'[i] = "PickKey"
                /\ errors'[i] = <<>>
                /\ spawns'[i] = 0
          /\ (pc[i] = "PickKey" /\ keys[i] = <<>> /\ pc'[i] # pc[i])
             => /\ pc'[i] = "Cancelled"
                /\ errors'[i] = <<>>
                /\ spawns'[i] = 0
                /\ out'[i] = "none"]_vars

\* C16 witness: the keys of the picked bucket were listed, the list was empty,
\* and the flow ended without an error and without a transfer.
C16_Witness ==
    \E i \in Inv :
        /\ variant = "discovery"
        /\ Len(listCalls[i]) = 2
        /\ keys[i] = <<>>
        /\ pc[i] = "Cancelled"
        /\ Len(picked[i]) = 2
        /\ errors[i] = <<>>
        /\ spawns[i] = 0

\* C17: the success notification is emitted only in the step that ends the viewer
\* hand-off (the document was opened and shown) of an invocation whose transfer
\* succeeded; it names the locator of that invocation; an invocation that failed
\* has emitted none.
C17_NoticeOnlyAfterHandOff ==
    [][\A i \in Inv :
          /\ notices'[i] # notices[i]
             => /\ pc[i] \in {"ShowDoc", "SetLang"}
                /\ pc'[i] = "Done"
                /\ promise[i].state = "resolved"
                /\ notices'[i] = <<s3Uri[i]>>
                /\ Truthy(s3Uri[i])
                /\ errors'[i] = <<>>
          /\ pc'[i] = "Failed" => notices'[i] = <<>>]_vars

\* C17 witness: an invocation is done and has emitted the notification naming
\* its locator.
C17_Witness ==
    \E i \in Inv :
        /\ pc[i] = "Done"
        /\ promise[i].state = "resolved"
        /\ notices[i] = <<GoodUri>>
        /\ s3Uri[i] = GoodUri

\* C18: an invocation shows nothing before it ends, and ends in exactly one
\* outcome: nothing (cancelled), one success notification (done) or one error
\* message (failed); never both kinds and never two error messages, however many
\* failure events of the transfer fire.
C18_ExactlyOneOutcome ==
    \A i \in Inv :
        /\ Len(errors[i]) + Len(notices[i]) <= 1
        /\ pc[i] = "Done" => Len(notices[i]) = 1 /\ errors[i] = <<>>
        /\ pc[i] = "Failed" => Len(errors[i]) = 1 /\ notices[i] = <<>>
        /\ pc[i] \notin {"Done", "Failed"} => errors[i] = <<>> /\ notices[i] = <<>>

\* C18 witness: the write stream errored and the subprocess then closed with a
\* non-zero code, two failure events of one transfer; one error message was shown.
C18_Witness ==
    \E i \in Inv :
        /\ out[i] = "errored"
        /\ child[i] = "closed"
        /\ closeCode[i] = "2"
        /\ pc[i] = "Failed"
        /\ Len(errors[i]) = 1
        /\ notices[i] = <<>>

\* C19: once the spawn has failed or the subprocess has closed, a transfer that is
\* still pending eventually settles; and once the write stream has errored the
\* transfer is already settled, so a close event that arrives after the stream
\* was destroyed finds nothing left pending.
C19_TransferSettles ==
    \A i \in Inv :
        /\ [](out[i] = "errored" => promise[i].state = "rejected")
        /\ (promise[i].state = "pending" /\ child[i] \in {"spawnErr", "closed"})
           ~> (promise[i].state \in {"resolved", "rejected"})

\* C19 witness: the subprocess closed while the write stream was still busy, the
\* callback of out.close() waited for the stream, and the transfer settled.
C19_Witness ==
    \E i \in Inv :
        /\ child[i] = "closed"
        /\ cbReg[i]
        /\ out[i] = "closed"
        /\ written[i] = MaxChunks
        /\ promise[i].state = "resolved"
=============================================================================
